---- MODULE Spec2Model ----
(***************************************************************************)
(* mcupdate: a single worker polls the Minecraft version manifest, compares *)
(* latest.snapshot with the marker file prev_mc_snapshot.txt and, on a     *)
(* change, posts to ntfy.sh and to a Discord webhook before rewriting the  *)
(* marker.  Model of src/src/main.rs.                                      *)
(*                                                                         *)
(* One action per I/O step of check_minecraft_update and of main.  Every   *)
(* Result/Option the code inspects (is_none, unwrap, unwrap_or, ok) is an  *)
(* outcome chosen by the environment; an unwrap of a failure is a panic of *)
(* the worker, which main's join().unwrap() turns into process exit.       *)
(***************************************************************************)
EXTENDS Integers, Sequences, FiniteSets, TLC

\* ------------------------------------------------------------------ bounds
\* Number of distinct snapshot identifiers the remote manifest may name.
NumSnapshots == 2
\* Largest whole hour of the wall clock sampled in the full model.
MaxHours == 2
\* Largest whole hour of the wall clock in the elapsed-time model, where every
\* second of the clock is enumerated.
WideHours == 3

\* --------------------------------------------------------- program constants
\* UPDATE_INTERVAL, in seconds (3 * 60).
UPDATE_INTERVAL == 180
\* "priority": 4 of the ntfy payload.
NTFY_PRIORITY == 4
\* "color": 16776960 of the Discord embed.
DC_EMBED_COLOR == 16776960

MANIFEST_URL == "https://piston-meta.mojang.com/mc/game/version_manifest_v2.json"
MINECRAFT_ICON_URL == "https://resources.download.minecraft.net/df/df274fe57c49ef1af6d218703d805db76a5c8af9"
CACHE_FILE == "prev_mc_snapshot.txt"
NTFY_HOST == "https://ntfy.sh/"
NTFY_TOPIC == "mcupdate"
NTFY_ICON == MINECRAFT_ICON_URL
DC_WEBHOOK_NAME == "Minecraft Update"
DC_WEBHOOK_ICON == MINECRAFT_ICON_URL

\* ------------------------------------------------------------ value domains
\* A JSON index that yields Value::Null (as_str() is None), and an unset
\* environment variable.
JsonNull == "<null>"
EnvUnset == "<unset>"
\* fs::exists(CACHE_FILE) is Ok(false): there is no marker file.
NoFile == "<no file>"

Snapshots == { "25w0" \o ToString(i) \o "a" : i \in 1..NumSnapshots }
VersionTypes == { "snapshot", "release" }
DetailUrl(v) == "https://piston-meta.mojang.com/v1/packages/" \o v \o ".json"
DetailUrls == { DetailUrl(v) : v \in Snapshots }
DISCORD_WEBHOOK_URL == "https://discord.com/api/webhooks/1/t"
HEALTHCHECKS_URL == "https://hc-ping.com/uuid"

\* A releaseTime value of the detail document.  An RFC3339 text is kept by its
\* fields (day since 1970-01-01, hour, minute, second, UTC offset in hours);
\* kind "malformed" is a string chrono rejects, kind "null" a missing field.
TimeStr(k, d, h, m, s, off) ==
    [kind |-> k, day |-> d, hour |-> h, min |-> m, sec |-> s, offset |-> off]
Rfc3339(d, h, m, s, off) == TimeStr("rfc3339", d, h, m, s, off)
MalformedTime == TimeStr("malformed", 0, 0, 0, 0, 0)
NullTime == TimeStr("null", 0, 0, 0, 0, 0)
ReleaseTimeStrs == { Rfc3339(0, 1, 0, 0, off) : off \in {0, 1} }

\* Wall-clock readings (seconds since the epoch) of the full model: the first
\* second of each hour up to MaxHours, and the last second of the first hour.
ClockTimes == { h * 3600 : h \in 0..MaxHours } \cup { 3599 }
\* Every second up to the end of hour WideHours.
WideClockTimes == 0 .. (WideHours * 3600 + 3599)

\* ------------------------------------------------------------------- state
VARIABLES
    pc,                  \* position of the process
    discord_webhook_url, \* env DISCORD_WEBHOOK_URL, or EnvUnset
    healthchecks_url,    \* env HEALTHCHECKS_URL, or EnvUnset (None)
    spawned,             \* the scheduler thread has been spawned in this run
    marker,              \* content of CACHE_FILE, or NoFile
    manifest_json,       \* <<>> (None) or <<Value>>
    latest_snapshot,     \* manifest_json["latest"]["snapshot"], once extracted
    latest_data_url,     \* manifest_json["versions"][0]["url"], once extracted
    latest_data_json,    \* <<>> or <<Value>> of the version detail
    current_time_secs,   \* the clock reading of line 69
    release_diff_hours,
    release_diff_string, \* "" until computed
    calls,               \* HTTP requests issued in this cycle, in order
    ntfy_post,           \* <<>> or <<[body, header, status]>> of this cycle
    discord_post,        \* <<>> or <<[body, status]>> of this cycle
    cycleStartMarker,    \* the marker when this cycle began
    panicAt,             \* "" or the position at which the process panicked
    lastNtfy,            \* snapshot id of the last push POST that got a response
    lastDiscord,         \* snapshot id of the last webhook POST that got a response
    prev                 \* how the previous cycle ended, and on which manifest

vars == << pc, discord_webhook_url, healthchecks_url, spawned, marker,
           manifest_json, latest_snapshot, latest_data_url, latest_data_json,
           current_time_secs, release_diff_hours, release_diff_string, calls,
           ntfy_post, discord_post, cycleStartMarker, panicAt, lastNtfy,
           lastDiscord, prev >>

\* The locals of check_minecraft_update, before the function has run.
locals == << manifest_json, latest_snapshot, latest_data_url, latest_data_json,
             current_time_secs, release_diff_hours, release_diff_string, calls,
             ntfy_post, discord_post >>

FreshLocals ==
    /\ manifest_json' = << >>
    /\ latest_snapshot' = JsonNull
    /\ latest_data_url' = JsonNull
    /\ latest_data_json' = << >>
    /\ current_time_secs' = 0
    /\ release_diff_hours' = 0
    /\ release_diff_string' = ""
    /\ calls' = << >>
    /\ ntfy_post' = << >>
    /\ discord_post' = << >>

NoPrev ==
    [ outcome |-> "none", manifest |-> << >>, startMarker |-> NoFile,
      at |-> "", rejected |-> FALSE, slept |-> 0 ]

Init ==
    /\ pc = "main"
    /\ discord_webhook_url \in {EnvUnset, DISCORD_WEBHOOK_URL}
    /\ healthchecks_url \in {EnvUnset, HEALTHCHECKS_URL}
    /\ spawned = FALSE
    /\ marker = NoFile
    /\ manifest_json = << >>
    /\ latest_snapshot = JsonNull
    /\ latest_data_url = JsonNull
    /\ latest_data_json = << >>
    /\ current_time_secs = 0
    /\ release_diff_hours = 0
    /\ release_diff_string = ""
    /\ calls = << >>
    /\ ntfy_post = << >>
    /\ discord_post = << >>
    /\ cycleStartMarker = NoFile
    /\ panicAt = ""
    /\ lastNtfy = JsonNull
    /\ lastDiscord = JsonNull
    /\ prev = NoPrev

\* An unwrap()/expect() of a failure at position `at`: the process ends.
Panic(at) ==
    /\ pc' = "panicked"
    /\ panicAt' = at

\* ------------------------------------------------------------------- main
\* Faulty variant of Main: the worker is spawned without DISCORD_WEBHOOK_URL
\* having been required (std::env::var(..).ok() in place of expect).
MainNoEnvCheck ==
    /\ pc = "main"
    /\ pc' = "ping"
    /\ spawned' = TRUE
    /\ cycleStartMarker' = marker
    /\ UNCHANGED << panicAt, discord_webhook_url, healthchecks_url, marker,
                    locals, lastNtfy, lastDiscord, prev >>

\* main, lines 126-130: read the environment, then spawn the worker, which
\* enters its first cycle.
Main ==
    /\ pc = "main"
    /\ IF discord_webhook_url = EnvUnset
       THEN /\ Panic("env")
            /\ UNCHANGED << spawned, cycleStartMarker >>
       ELSE /\ pc' = "ping"
            /\ spawned' = TRUE
            /\ cycleStartMarker' = marker
            /\ UNCHANGED panicAt
    /\ UNCHANGED << discord_webhook_url, healthchecks_url, marker, locals,
                    lastNtfy, lastDiscord, prev >>

\* ------------------------------------------------------------- HTTP layer
Call(m, u, r) == [method |-> m, url |-> u, result |-> r]

\* What a GET whose body is parsed can come to: send() fails, text() fails,
\* the body is not JSON, or a JSON value is returned.
FetchOutcomes == { "send_failed", "text_failed", "invalid_json", "ok" }
\* What a POST can come to: send() fails, or a response with a status.
PostOutcomes == { "send_failed", "200", "500" }

\* fetch_json, lines 20-27: Some(value) only when the request, the body read
\* and the JSON parse all succeed.
fetch_json(outcome, value) ==
    IF outcome = "ok" THEN << value >> ELSE << >>

\* The manifest documents the remote can serve: latest.snapshot, which may be
\* missing, and versions, which may be empty or begin with an entry that has
\* no url.
VersionEntries ==
    { [id |-> v, url |-> DetailUrl(v)] : v \in Snapshots }
        \cup { [id |-> JsonNull, url |-> JsonNull] }
ManifestValues ==
    [ latest : [snapshot : Snapshots \cup {JsonNull}],
      versions : { << >> } \cup { << e >> : e \in VersionEntries } ]

\* The detail documents the remote can serve at url.
DetailValues(url) ==
    [ id : { v \in Snapshots : DetailUrl(v) = url },
      releaseTime : ReleaseTimeStrs \cup { MalformedTime, NullTime },
      type : VersionTypes \cup { JsonNull } ]

\* manifest_json["versions"][0]["url"]: indexing past the end gives Null.
Versions0Url(value) ==
    IF value.versions = << >> THEN JsonNull ELSE value.versions[1].url

\* ------------------------------------------------- check_minecraft_update
\* Faulty variant of Ping: the result of send() is dropped instead of being
\* unwrapped.
PingIgnoresFailure ==
    /\ pc = "ping"
    /\ IF healthchecks_url = EnvUnset
       THEN /\ pc' = "manifest"
            /\ UNCHANGED << calls, panicAt >>
       ELSE \E sent \in BOOLEAN :
              /\ calls' = Append(calls,
                     Call("GET", healthchecks_url, IF sent THEN "ok" ELSE "send_failed"))
              /\ pc' = "manifest"
              /\ UNCHANGED panicAt
    /\ UNCHANGED << discord_webhook_url, healthchecks_url, spawned, marker,
                    manifest_json, latest_snapshot, latest_data_url,
                    latest_data_json, current_time_secs, release_diff_hours,
                    release_diff_string, ntfy_post, discord_post,
                    cycleStartMarker, lastNtfy, lastDiscord, prev >>

\* Lines 34-36: the optional liveness ping; a transport failure is unwrapped.
Ping ==
    /\ pc = "ping"
    /\ IF healthchecks_url = EnvUnset
       THEN /\ pc' = "manifest"
            /\ UNCHANGED << calls, panicAt >>
       ELSE \E sent \in BOOLEAN :
              /\ calls' = Append(calls,
                     Call("GET", healthchecks_url, IF sent THEN "ok" ELSE "send_failed"))
              /\ IF sent
                 THEN pc' = "manifest" /\ UNCHANGED panicAt
                 ELSE Panic("ping")
    /\ UNCHANGED << discord_webhook_url, healthchecks_url, spawned, marker,
                    manifest_json, latest_snapshot, latest_data_url,
                    latest_data_json, current_time_secs, release_diff_hours,
                    release_diff_string, ntfy_post, discord_post,
                    cycleStartMarker, lastNtfy, lastDiscord, prev >>

\* Faulty variant of FetchManifest: the manifest fetch is unwrapped like the
\* detail fetch of line 56.
FetchManifestUnwrap ==
    /\ pc = "manifest"
    /\ \E outcome \in FetchOutcomes, value \in ManifestValues :
          /\ calls' = Append(calls, Call("GET", MANIFEST_URL, outcome))
          /\ manifest_json' = fetch_json(outcome, value)
          /\ IF manifest_json' = << >>
             THEN Panic("manifest")
             ELSE pc' = "latest" /\ UNCHANGED panicAt
    /\ UNCHANGED << discord_webhook_url, healthchecks_url, spawned, marker,
                    latest_snapshot, latest_data_url, latest_data_json,
                    current_time_secs, release_diff_hours, release_diff_string,
                    ntfy_post, discord_post, cycleStartMarker,
                    lastNtfy, lastDiscord, prev >>

\* Lines 38-43: fetch the manifest; None ends the cycle with a log line.
FetchManifest ==
    /\ pc = "manifest"
    /\ \E outcome \in FetchOutcomes, value \in ManifestValues :
          /\ calls' = Append(calls, Call("GET", MANIFEST_URL, outcome))
          /\ manifest_json' = fetch_json(outcome, value)
          /\ pc' = IF manifest_json' = << >> THEN "sleep" ELSE "latest"
    /\ UNCHANGED << discord_webhook_url, healthchecks_url, spawned, marker,
                    latest_snapshot, latest_data_url, latest_data_json,
                    current_time_secs, release_diff_hours, release_diff_string,
                    ntfy_post, discord_post, cycleStartMarker, panicAt,
                    lastNtfy, lastDiscord, prev >>

\* Faulty variant of ExtractLatest: a manifest without a string at
\* latest.snapshot is treated like a failed manifest fetch, the cycle returns.
ExtractLatestAborts ==
    /\ pc = "latest"
    /\ LET s == manifest_json[1].latest.snapshot IN
         IF s = JsonNull
         THEN pc' = "sleep" /\ UNCHANGED << latest_snapshot, panicAt >>
         ELSE /\ latest_snapshot' = s
              /\ pc' = "compare"
              /\ UNCHANGED panicAt
    /\ UNCHANGED << discord_webhook_url, healthchecks_url, spawned, marker,
                    manifest_json, latest_data_url, latest_data_json,
                    current_time_secs, release_diff_hours, release_diff_string,
                    calls, ntfy_post, discord_post, cycleStartMarker,
                    lastNtfy, lastDiscord, prev >>

\* Line 45: latest.snapshot must be a string.
ExtractLatest ==
    /\ pc = "latest"
    /\ LET s == manifest_json[1].latest.snapshot IN
         IF s = JsonNull
         THEN Panic("latest") /\ UNCHANGED latest_snapshot
         ELSE /\ latest_snapshot' = s
              /\ pc' = "compare"
              /\ UNCHANGED panicAt
    /\ UNCHANGED << discord_webhook_url, healthchecks_url, spawned, marker,
                    manifest_json, latest_data_url, latest_data_json,
                    current_time_secs, release_diff_hours, release_diff_string,
                    calls, ntfy_post, discord_post, cycleStartMarker,
                    lastNtfy, lastDiscord, prev >>

\* What fs::exists(CACHE_FILE) can return when the file content is m:
\* Ok(true) or Ok(false) as the file is there or not, or Err when the
\* existence can be neither confirmed nor denied.
ExistsOutcomes(m) ==
    IF m = NoFile THEN { "ok_false", "err" } ELSE { "ok_true", "err" }

\* Line 46: fs::exists(CACHE_FILE).unwrap_or(false).
ExistsUnwrapOrFalse(existsResult) == existsResult = "ok_true"

\* Lines 46-53: compare with the marker; equal ends the cycle.
CompareMarker ==
    /\ pc = "compare"
    /\ \E existsResult \in ExistsOutcomes(marker), readOk \in BOOLEAN :
          IF ExistsUnwrapOrFalse(existsResult)
          THEN IF ~readOk
               THEN Panic("read")
               ELSE /\ pc' = IF latest_snapshot = marker THEN "sleep" ELSE "detail"
                    /\ UNCHANGED panicAt
          ELSE /\ pc' = "detail"
               /\ UNCHANGED panicAt
    /\ UNCHANGED << discord_webhook_url, healthchecks_url, spawned, marker,
                    locals, cycleStartMarker, lastNtfy, lastDiscord, prev >>

\* Faulty variant of FetchDetail: a failed detail fetch ends the cycle like a
\* failed manifest fetch (log and return) instead of being unwrapped.
FetchDetailAborts ==
    /\ pc = "detail"
    /\ LET url == Versions0Url(manifest_json[1]) IN
         IF url = JsonNull
         THEN /\ Panic("detail_url")
              /\ UNCHANGED << latest_data_url, latest_data_json, calls >>
         ELSE \E outcome \in FetchOutcomes, value \in DetailValues(url) :
                /\ latest_data_url' = url
                /\ calls' = Append(calls, Call("GET", url, outcome))
                /\ latest_data_json' = fetch_json(outcome, value)
                /\ IF latest_data_json' = << >>
                   THEN pc' = "sleep" /\ UNCHANGED panicAt
                   ELSE IF value.releaseTime.kind = "null" \/ value.type = JsonNull
                        THEN Panic("detail_fields")
                        ELSE pc' = "elapsed" /\ UNCHANGED panicAt
    /\ UNCHANGED << discord_webhook_url, healthchecks_url, spawned, marker,
                    manifest_json, latest_snapshot, current_time_secs,
                    release_diff_hours, release_diff_string, ntfy_post,
                    discord_post, cycleStartMarker, lastNtfy, lastDiscord, prev >>

\* Lines 55-58: versions[0].url must be a string, the detail fetch must give a
\* JSON value, and releaseTime and type must be strings; each is unwrapped.
FetchDetail ==
    /\ pc = "detail"
    /\ LET url == Versions0Url(manifest_json[1]) IN
         IF url = JsonNull
         THEN /\ Panic("detail_url")
              /\ UNCHANGED << latest_data_url, latest_data_json, calls >>
         ELSE \E outcome \in FetchOutcomes, value \in DetailValues(url) :
                /\ latest_data_url' = url
                /\ calls' = Append(calls, Call("GET", url, outcome))
                /\ latest_data_json' = fetch_json(outcome, value)
                /\ IF latest_data_json' = << >>
                   THEN Panic("detail_fetch")
                   ELSE IF value.releaseTime.kind = "null" \/ value.type = JsonNull
                        THEN Panic("detail_fields")
                        ELSE pc' = "elapsed" /\ UNCHANGED panicAt
    /\ UNCHANGED << discord_webhook_url, healthchecks_url, spawned, marker,
                    manifest_json, latest_snapshot, current_time_secs,
                    release_diff_hours, release_diff_string, ntfy_post,
                    discord_post, cycleStartMarker, lastNtfy, lastDiscord, prev >>

\* Faulty variant of RustDiv: the quotient is rounded toward minus infinity.
FloorDiv(a, b) ==
    a \div b

\* Rust's integer division: the quotient is rounded toward zero (b > 0).
RustDiv(a, b) ==
    IF a >= 0 THEN a \div b ELSE -((-a) \div b)

\* chrono::DateTime::parse_from_rfc3339(..).timestamp(), line 65-68: the Unix
\* time of the instant the fields name, the offset subtracted.
Timestamp(t) ==
    t.day * 86400 + t.hour * 3600 + t.min * 60 + t.sec - t.offset * 3600

\* Line 74: (current_time_secs - release_time_secs) / 60 / 60.
ReleaseDiffHours(current, release) ==
    RustDiv(RustDiv(current - release, 60), 60)

\* Faulty variants of PluralSuffix: singular for every count up to one, and
\* singular for zero and one.
PluralSuffixAtMostOne(hours) ==
    IF hours <= 1 THEN "" ELSE "s"

PluralSuffixZeroSingular(hours) ==
    IF hours = 0 \/ hours = 1 THEN "" ELSE "s"

\* Line 78: the plural suffix.
PluralSuffix(hours) ==
    IF hours = 1 THEN "" ELSE "s"

\* Lines 75-79: format!("{} hour{} ago", ..).
ReleaseDiffString(hours) ==
    ToString(hours) \o " hour" \o PluralSuffix(hours) \o " ago"

\* Lines 65-79 with the clock read from Clock: parse the release time, read
\* the clock, compute and format the elapsed hours.  A release time that does
\* not parse and a clock before the epoch are unwrapped.
ComputeElapsedOver(Clock) ==
    /\ pc = "elapsed"
    /\ LET release_time_str == latest_data_json[1].releaseTime IN
         IF release_time_str.kind # "rfc3339"
         THEN /\ Panic("parse_time")
              /\ UNCHANGED << current_time_secs, release_diff_hours,
                              release_diff_string >>
         ELSE \E clockOk \in BOOLEAN :
                IF ~clockOk
                THEN /\ Panic("clock")
                     /\ UNCHANGED << current_time_secs, release_diff_hours,
                                     release_diff_string >>
                ELSE \E now \in Clock :
                       /\ current_time_secs' = now
                       /\ release_diff_hours' =
                             ReleaseDiffHours(now, Timestamp(release_time_str))
                       /\ release_diff_string' =
                             ReleaseDiffString(release_diff_hours')
                       /\ pc' = "ntfy"
                       /\ UNCHANGED panicAt
    /\ UNCHANGED << discord_webhook_url, healthchecks_url, spawned, marker,
                    manifest_json, latest_snapshot, latest_data_url,
                    latest_data_json, calls, ntfy_post, discord_post,
                    cycleStartMarker, lastNtfy, lastDiscord, prev >>

ComputeElapsed == ComputeElapsedOver(ClockTimes)

\* Faulty variant of NtfyBody: the click-through URL is that of the version
\* latest.snapshot names instead of that of versions[0].
NtfyBodyClickLatest ==
    [ topic |-> NTFY_TOPIC,
      message |-> latest_data_json[1].type \o " " \o latest_snapshot
                      \o " " \o release_diff_string,
      title |-> "New Minecraft " \o latest_data_json[1].type,
      tags |-> << "minecraft", "update", "snapshot" >>,
      priority |-> NTFY_PRIORITY,
      click |-> DetailUrl(latest_snapshot) ]

\* Lines 84-91: the JSON body of the push notification.
NtfyBody ==
    [ topic |-> NTFY_TOPIC,
      message |-> latest_data_json[1].type \o " " \o latest_snapshot
                      \o " " \o release_diff_string,
      title |-> "New Minecraft " \o latest_data_json[1].type,
      tags |-> << "minecraft", "update", "snapshot" >>,
      priority |-> NTFY_PRIORITY,
      click |-> latest_data_url ]

\* Lines 102-114: the JSON body of the webhook, one embed.
DiscordBody ==
    [ embeds |-> << [ title |-> "New Minecraft " \o latest_data_json[1].type
                                    \o ": " \o latest_snapshot,
                      timestamp |-> latest_data_json[1].releaseTime,
                      color |-> DC_EMBED_COLOR,
                      footer |-> [ text |-> DC_WEBHOOK_NAME,
                                   icon_url |-> DC_WEBHOOK_ICON ] ] >> ]

\* Faulty variant of PostNtfy: the marker is persisted as soon as the push
\* POST has a response, before the webhook POST.
PostNtfyPersists ==
    /\ pc = "ntfy"
    /\ \E result \in PostOutcomes :
          /\ calls' = Append(calls, Call("POST", NTFY_HOST, result))
          /\ ntfy_post' = << [ snapshot |-> latest_snapshot, body |-> NtfyBody,
                               icon |-> NTFY_ICON, status |-> result ] >>
          /\ IF result = "send_failed"
             THEN Panic("ntfy") /\ UNCHANGED << lastNtfy, marker >>
             ELSE /\ pc' = "discord"
                  /\ lastNtfy' = latest_snapshot
                  /\ marker' = latest_snapshot
                  /\ UNCHANGED panicAt
    /\ UNCHANGED << discord_webhook_url, healthchecks_url, spawned,
                    manifest_json, latest_snapshot, latest_data_url,
                    latest_data_json, current_time_secs, release_diff_hours,
                    release_diff_string, discord_post, cycleStartMarker,
                    lastDiscord, prev >>

\* Lines 81-97: POST to ntfy.sh; a transport failure is unwrapped, any
\* response is only logged.
PostNtfy ==
    /\ pc = "ntfy"
    /\ \E result \in PostOutcomes :
          /\ calls' = Append(calls, Call("POST", NTFY_HOST, result))
          /\ ntfy_post' = << [ snapshot |-> latest_snapshot, body |-> NtfyBody,
                               icon |-> NTFY_ICON, status |-> result ] >>
          /\ IF result = "send_failed"
             THEN Panic("ntfy") /\ UNCHANGED lastNtfy
             ELSE /\ pc' = "discord"
                  /\ lastNtfy' = latest_snapshot
                  /\ UNCHANGED panicAt
    /\ UNCHANGED << discord_webhook_url, healthchecks_url, spawned, marker,
                    manifest_json, latest_snapshot, latest_data_url,
                    latest_data_json, current_time_secs, release_diff_hours,
                    release_diff_string, discord_post, cycleStartMarker,
                    lastDiscord, prev >>

\* Lines 99-120: POST to the Discord webhook, handled like the push POST.
PostDiscord ==
    /\ pc = "discord"
    /\ \E result \in PostOutcomes :
          /\ calls' = Append(calls, Call("POST", discord_webhook_url, result))
          /\ discord_post' = << [ snapshot |-> latest_snapshot,
                                  body |-> DiscordBody, status |-> result ] >>
          /\ IF result = "send_failed"
             THEN Panic("discord") /\ UNCHANGED lastDiscord
             ELSE /\ pc' = "write"
                  /\ lastDiscord' = latest_snapshot
                  /\ UNCHANGED panicAt
    /\ UNCHANGED << discord_webhook_url, healthchecks_url, spawned, marker,
                    manifest_json, latest_snapshot, latest_data_url,
                    latest_data_json, current_time_secs, release_diff_hours,
                    release_diff_string, ntfy_post, cycleStartMarker,
                    lastNtfy, prev >>

\* Faulty variants of WriteMarker: the cycle returns without the write, and
\* the write stores the id of versions[0] instead of latest.snapshot.
WriteMarkerSkipped ==
    /\ pc = "write"
    /\ pc' = "sleep"
    /\ UNCHANGED << marker, panicAt, discord_webhook_url, healthchecks_url,
                    spawned, locals, cycleStartMarker, lastNtfy, lastDiscord,
                    prev >>

WriteMarkerVersions0 ==
    /\ pc = "write"
    /\ \E writeOk \in BOOLEAN :
          IF writeOk
          THEN /\ marker' = latest_data_json[1].id
               /\ pc' = "sleep"
               /\ UNCHANGED panicAt
          ELSE /\ Panic("write")
               /\ UNCHANGED marker
    /\ UNCHANGED << discord_webhook_url, healthchecks_url, spawned, locals,
                    cycleStartMarker, lastNtfy, lastDiscord, prev >>

\* Line 122: fs::write(CACHE_FILE, latest_snapshot).ok().unwrap().  A write
\* that reports an error is taken to have left the file as it was.
WriteMarker ==
    /\ pc = "write"
    /\ \E writeOk \in BOOLEAN :
          IF writeOk
          THEN /\ marker' = latest_snapshot
               /\ pc' = "sleep"
               /\ UNCHANGED panicAt
          ELSE /\ Panic("write")
               /\ UNCHANGED marker
    /\ UNCHANGED << discord_webhook_url, healthchecks_url, spawned, locals,
                    cycleStartMarker, lastNtfy, lastDiscord, prev >>

\* How the cycle that has just returned ended.
CycleOutcome ==
    IF manifest_json = << >> THEN "manifest_failed"
    ELSE IF ntfy_post = << >> THEN "unchanged"
    ELSE "notified"

\* A POST of this cycle was answered with a non-2xx status (lines 94-97 and
\* 117-120 print the status and go on).
Rejected ==
    \/ ntfy_post # << >> /\ ntfy_post[1].status = "500"
    \/ discord_post # << >> /\ discord_post[1].status = "500"

\* What is remembered of a cycle once it is over: how it ended and, if it
\* issued the push POST, its manifest, the marker it started with, whether a
\* POST was rejected and, for a panic, where it panicked; slept is the time
\* the worker then slept before the next cycle (none after a panic).
Remember(outcome) ==
    IF ntfy_post = << >>
    THEN [ outcome |-> outcome, manifest |-> << >>, startMarker |-> NoFile,
           at |-> "", rejected |-> FALSE, slept |-> 0 ]
    ELSE [ outcome |-> outcome, manifest |-> manifest_json,
           startMarker |-> cycleStartMarker, at |-> panicAt,
           rejected |-> Rejected, slept |-> 0 ]

\* Faulty variant of Sleep: the next cycle is entered at once.
SleepNoWait ==
    /\ pc = "sleep"
    /\ pc' = "ping"
    /\ prev' = Remember(CycleOutcome)
    /\ cycleStartMarker' = marker
    /\ FreshLocals
    /\ UNCHANGED << discord_webhook_url, healthchecks_url, spawned, marker,
                    panicAt, lastNtfy, lastDiscord >>

\* Lines 132-135: the cycle has returned; sleep UPDATE_INTERVAL, then enter
\* the next cycle.
Sleep ==
    /\ pc = "sleep"
    /\ pc' = "ping"
    /\ prev' = [ Remember(CycleOutcome) EXCEPT !.slept = UPDATE_INTERVAL ]
    /\ cycleStartMarker' = marker
    /\ FreshLocals
    /\ UNCHANGED << discord_webhook_url, healthchecks_url, spawned, marker,
                    panicAt, lastNtfy, lastDiscord >>

\* The process has exited on a panic and is started again with the same
\* environment (main, lines 125-137, run anew); only the marker file is kept.
Restart ==
    /\ pc = "panicked"
    /\ pc' = "main"
    /\ spawned' = FALSE
    /\ panicAt' = ""
    /\ prev' = IF spawned THEN Remember("panicked") ELSE prev
    /\ cycleStartMarker' = marker
    /\ FreshLocals
    /\ UNCHANGED << discord_webhook_url, healthchecks_url, marker, lastNtfy,
                    lastDiscord >>

Next ==
    \/ Main
    \/ Ping
    \/ FetchManifest
    \/ ExtractLatest
    \/ CompareMarker
    \/ FetchDetail
    \/ ComputeElapsed
    \/ PostNtfy
    \/ PostDiscord
    \/ WriteMarker
    \/ Sleep
    \/ Restart

Spec == Init /\ [][Next]_vars

\* ------------------------------------------------- the elapsed-time model
\* The worker stands at line 65 with a detail document whose releaseTime and
\* type are strings; the clock is then read at any second of WideClockTimes.
InitElapsed ==
    /\ pc = "elapsed"
    /\ discord_webhook_url = DISCORD_WEBHOOK_URL
    /\ healthchecks_url = EnvUnset
    /\ spawned = TRUE
    /\ marker = NoFile
    /\ \E v \in Snapshots :
          /\ manifest_json = << [ latest |-> [snapshot |-> v],
                                  versions |-> << [id |-> v, url |-> DetailUrl(v)] >> ] >>
          /\ latest_snapshot = v
          /\ latest_data_url = DetailUrl(v)
          /\ \E d \in DetailValues(DetailUrl(v)) :
                /\ d.releaseTime.kind # "null"
                /\ d.type # JsonNull
                /\ latest_data_json = << d >>
          /\ calls = << Call("GET", MANIFEST_URL, "ok"),
                        Call("GET", DetailUrl(v), "ok") >>
    /\ current_time_secs = 0
    /\ release_diff_hours = 0
    /\ release_diff_string = ""
    /\ ntfy_post = << >>
    /\ discord_post = << >>
    /\ cycleStartMarker = NoFile
    /\ panicAt = ""
    /\ lastNtfy = JsonNull
    /\ lastDiscord = JsonNull
    /\ prev = NoPrev

ComputeElapsedWide == ComputeElapsedOver(WideClockTimes)

NextElapsed == ComputeElapsedWide

SpecElapsed == InitElapsed /\ [][NextElapsed]_vars

\* ------------------------------------------------------------- vocabulary
\* A request of this cycle to url was issued / got a response with result r.
Issued(url) ==
    \E i \in 1..Len(calls) : calls[i].url = url
DetailFetched ==
    \E i \in 1..Len(calls) : calls[i].url \in DetailUrls
PushIssued == ntfy_post # << >>
WebhookIssued == discord_post # << >>
PushResponded == PushIssued /\ ntfy_post[1].status # "send_failed"
WebhookResponded == WebhookIssued /\ discord_post[1].status # "send_failed"

\* The manifest of this cycle parsed and latest.snapshot was extracted.
LatestKnown == manifest_json # << >> /\ latest_snapshot # JsonNull
\* latest.snapshot differs from the marker the cycle started with, or there
\* was no marker file.
RealChange == LatestKnown /\ latest_snapshot # cycleStartMarker
\* The manifest GET of this cycle gave None: request, body or JSON failure.
ManifestFailed ==
    /\ calls # << >>
    /\ calls[Len(calls)].url = MANIFEST_URL
    /\ calls[Len(calls)].result # "ok"
\* The detail GET, the push POST and the webhook POST were issued in this
\* order, the GET giving a JSON value and both POSTs a response.
NotifiedInOrder ==
    \E i, j, k \in 1..Len(calls) :
        /\ i < j /\ j < k
        /\ calls[i] = Call("GET", latest_data_url, "ok")
        /\ calls[j].method = "POST" /\ calls[j].url = NTFY_HOST
        /\ calls[j].result # "send_failed"
        /\ calls[k].method = "POST" /\ calls[k].url = discord_webhook_url
        /\ calls[k].result # "send_failed"
\* No cycle is in progress: the worker sleeps, or the process has exited.
CycleOver == pc \in { "sleep", "panicked" }

\* ------------------------------------------------------------------ claims

\* C1 (as stated): in a cycle whose manifest fetch succeeds and whose
\* latest.snapshot equals the content of the marker, the version detail is
\* not fetched, neither POST is issued and the marker is unchanged.
C1_UnchangedCycleIsSilent ==
    (LatestKnown /\ latest_snapshot = cycleStartMarker)
        => /\ ~DetailFetched
           /\ ~PushIssued
           /\ ~WebhookIssued
           /\ marker = cycleStartMarker

C3_RoundTripIsSilent ==
    (prev.outcome = "notified" /\ manifest_json # << >>
        /\ manifest_json = prev.manifest)
        => ~PushIssued /\ ~WebhookIssued

\* C4: when the manifest request fails or its body is not JSON, the cycle
\* returns: the process has not panicked, no POST was issued, the marker is
\* as the cycle found it, and the only step the worker can take, and takes,
\* is the sleep that leads into the next cycle.
C4_ManifestFailureAbortsCycleOnly ==
    /\ [](ManifestFailed
            => /\ pc = "sleep"
               /\ panicAt = ""
               /\ ~DetailFetched /\ ~PushIssued /\ ~WebhookIssued
               /\ marker = cycleStartMarker
               /\ ENABLED Sleep)
    /\ [][ManifestFailed
            => /\ pc' = "ping"
               /\ calls' = << >>
               /\ marker' = marker
               /\ lastNtfy' = lastNtfy /\ lastDiscord' = lastDiscord]_vars

\* C4 witness: the manifest body was not JSON while a marker file exists.
C4_Witness ==
    /\ ManifestFailed
    /\ calls[Len(calls)].result = "invalid_json"
    /\ marker # NoFile
    /\ pc = "sleep"

\* C5 (as stated): whenever no cycle is in progress (the worker sleeps or the
\* process has exited), a marker that is present equals the snapshot id of the
\* most recently sent notification, if one was sent.  The push POST precedes
\* the webhook POST of the same id, so the most recent one is lastNtfy.
C5_MarkerIsLastNotified ==
    (CycleOver /\ marker # NoFile /\ lastNtfy # JsonNull)
        => marker = lastNtfy

\* C6: when DISCORD_WEBHOOK_URL is not set, the process panics in main before
\* the worker is spawned: no request of any kind (ping, manifest, detail,
\* POST) is ever issued, no notification is ever sent and the marker is never
\* touched, whether or not a liveness-ping URL is configured.
C6_MissingWebhookUrlFailsBeforeHttp ==
    discord_webhook_url = EnvUnset
        => /\ ~spawned
           /\ pc \in { "main", "panicked" }
           /\ (pc = "panicked" => panicAt = "env")
           /\ calls = << >>
           /\ manifest_json = << >>
           /\ ~PushIssued /\ ~WebhookIssued
           /\ lastNtfy = JsonNull /\ lastDiscord = JsonNull
           /\ marker = NoFile

\* C6 witness: the process has exited for the missing variable although a
\* liveness-ping URL was configured.
C6_Witness ==
    /\ discord_webhook_url = EnvUnset
    /\ healthchecks_url # EnvUnset
    /\ pc = "panicked"
    /\ panicAt = "env"

\* Seconds from the release time of the detail document to the clock reading.
ReleaseDiffSecs ==
    current_time_secs - Timestamp(latest_data_json[1].releaseTime)

\* C7: once the elapsed string is computed for the whole-hour count N, it is
\* "<N> hour ago" if and only if N = 1 and "<N> hours ago" otherwise; a release
\* exactly one hour before now gives "1 hour ago", exactly two hours before
\* gives "2 hours ago".
C7_PluralSuffixOmittedIffOne ==
    pc = "ntfy"
        => LET N == release_diff_hours IN
             /\ (release_diff_string = ToString(N) \o " hour ago") <=> (N = 1)
             /\ (release_diff_string = ToString(N) \o " hours ago") <=> (N # 1)
             /\ (ReleaseDiffSecs = 3600 => release_diff_string = "1 hour ago")
             /\ (ReleaseDiffSecs = 7200 => release_diff_string = "2 hours ago")

\* C7 witness: the release was exactly one hour before the clock reading and
\* the string is the singular one.
C7_Witness ==
    /\ pc = "ntfy"
    /\ ReleaseDiffSecs = 3600
    /\ release_diff_hours = 1
    /\ release_diff_string = "1 hour ago"

\* C8 (as stated): a release less than one hour before now (N = 0) gives the
\* elapsed string "0 hour ago".
C8_ZeroHoursIsSingular ==
    (pc = "ntfy" /\ ReleaseDiffSecs \in 0..3599)
        => release_diff_string = "0 hour ago"

\* C8 (amended): a release less than one hour before now gives N = 0 and the
\* elapsed string "0 hours ago", the plural form.
C8_ZeroHoursIsPlural ==
    (pc = "ntfy" /\ ReleaseDiffSecs \in 0..3599)
        => /\ release_diff_hours = 0
           /\ release_diff_string = "0 hours ago"

\* C8 witness: a release half an hour before the clock reading.
C8_Witness ==
    /\ pc = "ntfy"
    /\ ReleaseDiffSecs = 1800
    /\ release_diff_string = "0 hours ago"

\* The cycle now running follows, after a restart, a cycle that panicked on
\* the transport of the webhook POST (its push POST had a response), whose
\* latest.snapshot differed from the marker it started with (or there was no
\* marker), and it has received the same manifest.
RetryAfterWebhookFailure ==
    /\ prev.outcome = "panicked"
    /\ prev.at = "discord"
    /\ prev.manifest[1].latest.snapshot # prev.startMarker
    /\ manifest_json = prev.manifest

\* C9 (as stated): a change-detected cycle whose push POST got a response and
\* whose webhook POST failed at transport level ends the process with the
\* marker not written, and the next cycle with the same manifest, once over,
\* has sent the push POST for the same snapshot id again.
C9_RetryResendsPush ==
    /\ (pc = "panicked" /\ panicAt = "discord" /\ RealChange)
          => marker = cycleStartMarker
    /\ (RetryAfterWebhookFailure /\ CycleOver)
          => /\ PushIssued
             /\ ntfy_post[1].snapshot = prev.manifest[1].latest.snapshot

\* C9 (amended): such a cycle ends the process with the push answered and the
\* marker as the cycle found it; the next cycle with the same manifest starts
\* from that same marker and never takes the unchanged path: it either
\* panics before the push POST (marker read, versions[0].url, detail fetch or
\* fields, release-time parse, clock) or issues the push POST for the same
\* snapshot id again, and it returns only after that POST got a response.
C9_RetryRedetectsAndResendsUnlessFatal ==
    /\ (pc = "panicked" /\ panicAt = "discord" /\ RealChange)
          => /\ PushResponded
             /\ ~WebhookResponded
             /\ marker = cycleStartMarker
    /\ RetryAfterWebhookFailure
          => /\ cycleStartMarker = prev.startMarker
             /\ latest_snapshot \in { JsonNull, prev.manifest[1].latest.snapshot }
             /\ (pc = "sleep" => PushResponded)
             /\ (PushIssued =>
                    ntfy_post[1].snapshot = prev.manifest[1].latest.snapshot)
             /\ (pc = "panicked" /\ ~PushIssued
                    => panicAt \in { "read", "detail_url", "detail_fetch",
                                     "detail_fields", "parse_time", "clock" })

\* C9 witness: the retry cycle has sent the push for the same id a second
\* time and got a response.
C9_Witness ==
    /\ RetryAfterWebhookFailure
    /\ PushResponded
    /\ ntfy_post[1].snapshot = prev.manifest[1].latest.snapshot
    /\ lastNtfy = prev.manifest[1].latest.snapshot

C11_RejectedNotificationIsNotResent ==
    /\ (PushIssued /\ ntfy_post[1].status = "500")
          => /\ pc \in { "discord", "write", "sleep", "panicked" }
             /\ (pc = "panicked" => panicAt \in { "discord", "write" })
             /\ (pc # "discord" => WebhookIssued)
    /\ (WebhookIssued /\ discord_post[1].status = "500")
          => /\ pc \in { "write", "sleep", "panicked" }
             /\ (pc = "panicked" => panicAt = "write")
    /\ (pc = "sleep" /\ Rejected)
          => /\ WebhookIssued
             /\ marker = latest_snapshot
    /\ (prev.outcome = "notified" /\ prev.rejected
            /\ manifest_json = prev.manifest)
          => ~PushIssued /\ ~WebhookIssued

\* The detail GET of this cycle gave None: request, body or JSON failure.
DetailFetchFailed ==
    /\ calls # << >>
    /\ calls[Len(calls)].url \in DetailUrls
    /\ calls[Len(calls)].result # "ok"

\* The worker of this process can take a step.
WorkerCanStep ==
    ENABLED (Ping \/ FetchManifest \/ ExtractLatest \/ CompareMarker
                \/ FetchDetail \/ ComputeElapsed \/ PostNtfy \/ PostDiscord
                \/ WriteMarker \/ Sleep)

\* C12: the detail GET is issued only past the marker comparison of a cycle
\* whose manifest parsed; when it fails (request, body or JSON) the process
\* panics instead of returning to the loop: no POST has been issued in the
\* cycle, the marker is as the cycle found it, the worker takes no further
\* step, and the only thing that can follow is a new start of the process,
\* which leaves the marker alone.
C12_DetailFetchFailureIsFatal ==
    /\ [](DetailFetched => LatestKnown /\ latest_data_url = Versions0Url(manifest_json[1]))
    /\ [](DetailFetchFailed
            => /\ pc = "panicked"
               /\ panicAt = "detail_fetch"
               /\ ~PushIssued /\ ~WebhookIssued
               /\ marker = cycleStartMarker
               /\ ~WorkerCanStep)
    /\ [][DetailFetchFailed
            => /\ pc' = "main"
               /\ ~spawned'
               /\ marker' = marker
               /\ lastNtfy' = lastNtfy /\ lastDiscord' = lastDiscord]_vars

\* C12 witness: the detail body was not JSON in a cycle that found a marker
\* naming another snapshot.
C12_Witness ==
    /\ DetailFetchFailed
    /\ calls[Len(calls)].result = "invalid_json"
    /\ cycleStartMarker # NoFile
    /\ RealChange
    /\ pc = "panicked"

\* The URLs a cycle requests besides the liveness ping.
WorkUrls ==
    { MANIFEST_URL, NTFY_HOST, discord_webhook_url } \cup DetailUrls

\* C13: with a liveness-ping URL configured, a cycle that has got past the
\* ping has issued the ping GET as its first request and only once, whatever
\* the cycle then does; a ping whose send() fails ends the process with no
\* other request issued, the manifest not fetched, no notification sent and
\* the marker as the cycle found it; with no URL configured no request other
\* than the manifest, detail, push and webhook ones is ever issued.
C13_PingFirstAndFatal ==
    /\ (healthchecks_url # EnvUnset /\ spawned /\ pc # "ping")
          => /\ calls # << >>
             /\ calls[1].method = "GET"
             /\ calls[1].url = healthchecks_url
             /\ \A i \in 2..Len(calls) : calls[i].url \in WorkUrls
    /\ (calls # << >> /\ calls[1].url = healthchecks_url
            /\ calls[1].result = "send_failed")
          => /\ pc = "panicked"
             /\ panicAt = "ping"
             /\ Len(calls) = 1
             /\ manifest_json = << >>
             /\ ~PushIssued /\ ~WebhookIssued
             /\ marker = cycleStartMarker
             /\ ~WorkerCanStep
    /\ healthchecks_url = EnvUnset
          => /\ \A i \in 1..Len(calls) : calls[i].url \in WorkUrls
             /\ panicAt # "ping"

\* C13 witness: the ping failed in a cycle that started with a marker file.
C13_Witness ==
    /\ healthchecks_url # EnvUnset
    /\ pc = "panicked"
    /\ panicAt = "ping"
    /\ calls = << Call("GET", healthchecks_url, "send_failed") >>
    /\ marker # NoFile

\* ------------------------------------------------------- the fair model
\* The clock of the fair model is read at the start of each hour only; the
\* progress of the loop does not depend on the reading.
ComputeElapsedHourly ==
    ComputeElapsedOver({ h * 3600 : h \in 0..1 })

\* A step of the process itself, as opposed to its being started again.
WorkerStep ==
    \/ Main
    \/ Ping
    \/ FetchManifest
    \/ ExtractLatest
    \/ CompareMarker
    \/ FetchDetail
    \/ ComputeElapsedHourly
    \/ PostNtfy
    \/ PostDiscord
    \/ WriteMarker
    \/ Sleep

NextLive ==
    \/ WorkerStep
    \/ Restart

\* The worker is the only thread with work to do, every call it makes is a
\* blocking call that returns (with a response or an error), and
\* thread::sleep returns: a step the process can take is eventually taken.
\* Nothing obliges anyone to start an exited process again.
SpecLive == Init /\ [][NextLive]_vars /\ WF_vars(WorkerStep)

\* C14: a cycle that has returned, by whichever path, leaves the worker at the
\* sleep, which it can always take and which leads, after UPDATE_INTERVAL,
\* into the next cycle; a cycle starts only at the start of the process or
\* right after that sleep (no earlier retry); every returned cycle is
\* eventually followed by another one; and a run in which the process never
\* panics starts cycles again and again.
C14_LoopProgress ==
    /\ [](pc = "sleep"
            => /\ ENABLED Sleep
               /\ CycleOutcome \in { "unchanged", "manifest_failed", "notified" })
    /\ [][pc = "sleep"
            => /\ pc' = "ping"
               /\ prev'.outcome = CycleOutcome
               /\ prev'.slept = UPDATE_INTERVAL]_vars
    /\ [][(pc' = "ping" /\ pc # "ping")
            => \/ pc = "main"
               \/ pc = "sleep" /\ prev'.slept = UPDATE_INTERVAL]_vars
    /\ (pc = "sleep") ~> (pc = "ping")
    /\ ([](pc # "panicked") => []<>(pc = "ping"))

\* C14 witness: a cycle has started after the sleep that followed a cycle
\* whose manifest fetch failed.
C14_Witness ==
    /\ pc = "ping"
    /\ prev.outcome = "manifest_failed"
    /\ prev.slept = UPDATE_INTERVAL
    /\ spawned

\* ------------------------------------------------ the runs without a panic
\* Step A taken in a run in which no fatal error occurs.
NoFatal(A) == A /\ pc' # "panicked"

NextNoFatal ==
    \/ NoFatal(Main)
    \/ NoFatal(Ping)
    \/ NoFatal(FetchManifest)
    \/ NoFatal(ExtractLatest)
    \/ NoFatal(CompareMarker)
    \/ NoFatal(FetchDetail)
    \/ NoFatal(ComputeElapsed)
    \/ NoFatal(PostNtfy)
    \/ NoFatal(PostDiscord)
    \/ NoFatal(WriteMarker)
    \/ NoFatal(Sleep)

SpecNoFatal == Init /\ [][NextNoFatal]_vars

\* The number of requests of this cycle to url.
RequestsTo(url) ==
    Cardinality({ i \in 1..Len(calls) : calls[i].url = url })

\* C15 (as stated): in a run without a fatal error, a push POST never carries
\* the snapshot id of the push before it, a webhook POST never that of the
\* webhook POST before it, and a cycle whose latest.snapshot differs from the
\* marker it started with issues, by the time it returns, exactly one push
\* POST and one webhook POST.
C15_NoRepeatedNotification ==
    /\ [][ /\ (ntfy_post = << >> /\ ntfy_post' # << >>)
                => lastNtfy # ntfy_post'[1].snapshot
           /\ (discord_post = << >> /\ discord_post' # << >>)
                => lastDiscord # discord_post'[1].snapshot ]_vars
    /\ []((pc = "sleep" /\ RealChange)
            => /\ RequestsTo(NTFY_HOST) = 1
               /\ RequestsTo(discord_webhook_url) = 1)

\* The manifest of this cycle parsed as JSON and has no string at
\* latest.snapshot.
ManifestWithoutLatest ==
    manifest_json # << >> /\ manifest_json[1].latest.snapshot = JsonNull

\* C16: a manifest that parsed but has no string at latest.snapshot is fatal:
\* the step after the parse panics at the unwrap of line 45, the cycle never
\* returns to the loop, the worker takes no further step, and no detail GET,
\* no push POST and no webhook POST has been issued and the marker is as the
\* cycle found it.
C16_ManifestWithoutLatestIsFatal ==
    /\ [](ManifestWithoutLatest
            => /\ pc \in { "latest", "panicked" }
               /\ pc = "panicked" => panicAt = "latest" /\ ~WorkerCanStep
               /\ ~DetailFetched
               /\ ~PushIssued
               /\ ~WebhookIssued
               /\ marker = cycleStartMarker)
    /\ [][(ManifestWithoutLatest /\ pc = "latest")
            => /\ pc' = "panicked"
               /\ panicAt' = "latest"
               /\ marker' = marker
               /\ calls' = calls]_vars

C16_Witness ==
    /\ ManifestWithoutLatest
    /\ pc = "panicked"
    /\ panicAt = "latest"
    /\ marker # NoFile
    /\ manifest_json[1].versions # << >>

\* C17: once the elapsed hours N are computed from a difference d of clock and
\* release time in seconds, N = k for d in 3600k..3600k+3599 (N = 0 for d in
\* 0..3599), and for a release in the future the quotient is rounded toward
\* zero: N = 0 for d in -3599..-1, and N = -k for d in -3600k-3599..-3600k.
\* A release in the future is no reason to fail: the only panics of the
\* computation are the unwraps of the parse and of the clock.
C17_ElapsedHoursTruncated ==
    /\ pc = "ntfy"
         => LET d == ReleaseDiffSecs
                N == release_diff_hours IN
            /\ d \in 0..3599 => N = 0
            /\ \A k \in 0..(WideHours + 1) :
                  d \in (3600 * k)..(3600 * k + 3599) => N = k
            /\ d \in (-3599)..(-1) => N = 0
            /\ \A k \in 1..(WideHours + 1) :
                  d \in (-3600 * k - 3599)..(-3600 * k) => N = -k
            /\ d \in (-3600 * (WideHours + 2) + 1)..(3600 * (WideHours + 2) - 1)
    /\ pc = "panicked" => panicAt \in { "parse_time", "clock" }

C17_Witness ==
    /\ pc = "ntfy"
    /\ ReleaseDiffSecs = -1800
    /\ release_diff_hours = 0
    /\ release_diff_string = "0 hours ago"

\* The elapsed string computed from the release time of the detail document
\* doc and the clock value the cycle read.
ElapsedStringOf(doc) ==
    ReleaseDiffString(
        ReleaseDiffHours(current_time_secs, Timestamp(doc.releaseTime)))

\* C18: the notifications name the id of latest.snapshot and describe the
\* document fetched from versions[0].url, whichever version that is: the
\* click-through URL of the push is versions[0].url, the URL the document was
\* fetched from, the type in the push title and message and in the embed
\* title, the elapsed time in the push message and the embed timestamp are
\* those of that document; and a cycle that notified and returned has stored
\* latest.snapshot in the marker.
C18_LatestIdWithVersions0Detail ==
    /\ PushIssued
         => LET m == manifest_json[1]
                doc == latest_data_json[1]
                body == ntfy_post[1].body IN
            /\ m.versions # << >>
            /\ body.click = m.versions[1].url
            /\ body.click = latest_data_url
            /\ ntfy_post[1].snapshot = m.latest.snapshot
            /\ body.title = "New Minecraft " \o doc.type
            /\ body.message = doc.type \o " " \o m.latest.snapshot
                                  \o " " \o ElapsedStringOf(doc)
    /\ WebhookIssued
         => LET m == manifest_json[1]
                doc == latest_data_json[1]
                embed == discord_post[1].body.embeds[1] IN
            /\ discord_post[1].snapshot = m.latest.snapshot
            /\ embed.title = "New Minecraft " \o doc.type
                                 \o ": " \o m.latest.snapshot
            /\ embed.timestamp = doc.releaseTime
    /\ (pc = "sleep" /\ PushIssued)
         => marker = manifest_json[1].latest.snapshot

C18_Witness ==
    /\ pc = "sleep"
    /\ PushResponded
    /\ WebhookResponded
    /\ latest_data_json[1].id # latest_snapshot
    /\ ntfy_post[1].body.click = DetailUrl(latest_data_json[1].id)
    /\ ntfy_post[1].body.click # DetailUrl(latest_snapshot)
    /\ marker = latest_snapshot
    /\ marker # cycleStartMarker

====
